---- MODULE Spec2Model ----
(***************************************************************************)
(* ChaiScript_System (include/chaiscript/language/chaiscript_engine.hpp):  *)
(* the loader of the scripting engine.  Host threads call use, eval_file   *)
(* and eval on one engine; a script under evaluation may call use and eval *)
(* again.  The model keeps, per thread, the stack of active calls of       *)
(* use / eval_file / do_eval with the position of each, the set            *)
(* loaded_files, the shared_mutex `mutex` and the recursive_mutex          *)
(* `use_mutex`.  The parser, the evaluator (eval_token) and the file       *)
(* system are outside this file: their outcomes are nondeterministic.      *)
(***************************************************************************)
EXTENDS Naturals, Sequences, FiniteSets

VARIABLES
    loaded_files,   \* std::set<std::string> loaded_files
    mutex,          \* boost::shared_mutex mutex: its writer and its readers
    use_mutex,      \* boost::recursive_mutex use_mutex: its owner and depth
    stack,          \* per thread: the active calls, outermost first
    exc,            \* per thread: the exception being propagated, if any
    result,         \* per thread: how its last host call ended, once it has
    calls,          \* calls issued so far, by all threads
    evals,          \* per name: times a use started eval_token on its tree
    noparse,        \* names of Names for which parser.parse gave no tree
    engine,         \* Eval_Engine engine: reserved words and what was added
    parsed          \* names parser.parse has been run for

vars == <<loaded_files, mutex, use_mutex, stack, exc, result, calls, evals, noparse,
          engine, parsed>>

(* ---------------------------------------------------------------- bounds *)

\* calls (by the hosts and by the scripts under evaluation) issued in a run
MaxCalls == 3

Threads == {"t1", "t2"}

\* a file a host or a script names in use / eval_file
AScript == "a.script"

\* values a script can produce, other than the default-constructed one
Values == {"v1"}

(* ------------------------------------------------------------- constants *)

\* default filename of do_eval
EvalName == "__EVAL__"

\* the unit name the prelude is evaluated under
PreludeName == "standard prelude"

\* a default-constructed Boxed_Value
Void == "void"

NoThread == "none"

\* the names use and eval_file are called with: a file may as well be named
\* like the default filename of do_eval
Names == {AScript, EvalName}

\* the thread that constructs the engine
Builder == "t1"

\* the engine.add_reserved_word calls of build_eval_system, in order
ReservedWordsNoUnderscore ==
    <<"def", "fun", "while", "for", "if", "else", "&&", "||", ",", ":=", "var",
      "return", "break", "true", "false">>

ReservedWords ==
    <<"def", "fun", "while", "for", "if", "else", "&&", "||", ",", ":=", "var",
      "return", "break", "true", "false", "_">>

\* the engine.add calls of build_eval_system, in order, with use and eval left
\* for after the prelude
AddedBeforePreludeNoUseEval ==
    <<"Bootstrap", "dump_system", "dump_object", "is_type", "type_name",
      "function_exists", "Vector", "string", "Map", "Pair">>

\* the engine.add calls of build_eval_system, in order: modules and types by
\* the name of what is added, functions by the name they are added under
AddedBeforePrelude ==
    <<"Bootstrap", "dump_system", "dump_object", "is_type", "type_name",
      "function_exists", "Vector", "string", "Map", "Pair", "use", "eval">>

Range(q) == {q[k] : k \in 1 .. Len(q)}

(* ------------------------------------------------------ exceptions in flight *)

NoExc == [kind |-> "none", val |-> Void, msg |-> <<>>]

\* the message without the filename
OpenErrorMsgNoPath(filename) == <<"Can not open: ">>

\* "Can not open: " + filename
OpenErrorMsg(filename) == <<"Can not open: ", filename>>

\* std::runtime_error thrown by load_file
OpenError(filename) ==
    [kind |-> "runtime_error", val |-> Void, msg |-> OpenErrorMsg(filename)]

\* whatever the parser throws on malformed text
ParseError == [kind |-> "parse_error", val |-> Void, msg |-> <<>>]

\* Return_Value carrying rv.retval
ReturnSignal(v) == [kind |-> "Return_Value", val |-> v, msg |-> <<>>]

\* the signal of a break with no enclosing loop
BreakSignal == [kind |-> "Break_Loop", val |-> Void, msg |-> <<>>]

\* any other error raised while the tree is evaluated
EvalError == [kind |-> "eval_error", val |-> Void, msg |-> <<>>]

(* ------------------------------------------------------------ call frames *)

\* one activation of use, eval_file or do_eval.
\*   pc      position in the function
\*   value   the local `value` of do_eval / the value eval_file passes on
\*   note    use: what the membership test found; eval_file: whether the
\*           file opened; do_eval: what parser.parse did
\*   out     do_eval: how eval_token ended;  carried: the value it ended with
\*   l_use, l_shared, l_unique: whether the frame's lock objects own their lock
NewFrame(fn, unit, pc) ==
    [fn |-> fn, unit |-> unit, pc |-> pc, value |-> Void, note |-> "none",
     out |-> "none", carried |-> Void,
     l_use |-> FALSE, l_shared |-> FALSE, l_unique |-> FALSE]

Depth(t) == Len(stack[t])

Top(t) == stack[t][Len(stack[t])]

Idle(t) == stack[t] = <<>> /\ exc[t] = NoExc

\* the constructor has returned: the engine exists and its host can call it
Ready == engine.built

\* name is a function a script can call
Registered(name) == name \in Range(engine.added)

Running(t) == stack[t] # <<>> /\ exc[t] = NoExc

At(t, fn, pc) == Running(t) /\ Top(t).fn = fn /\ Top(t).pc = pc

\* the top frame of t is do_eval called by eval_file called by use
UnderUse(t) == Depth(t) >= 3 /\ stack[t][Depth(t) - 2].fn = "use"

SetTop(s, f) == [s EXCEPT ![Len(s)] = f]

Push(s, f) == Append(s, f)

Pop(s) == SubSeq(s, 1, Len(s) - 1)

\* the caller's state once a callee has returned v to it
Resume(s, v) ==
    IF s = <<>> THEN s
    ELSE LET c == s[Len(s)] IN
         IF c.fn = "eval_file" THEN SetTop(s, [c EXCEPT !.value = v, !.pc = "ret"])
         ELSE IF c.fn \in {"use", "ctor"} THEN SetTop(s, [c EXCEPT !.pc = "ret"])
         ELSE s

(* ------------------------------------------------------------------ locks *)

\* mutex is taken shared when no writer holds it and unique when nobody holds
\* it; no call of this file asks for mutex while its thread holds it.
\* use_mutex can be taken again by its owner.

\* a unique_lock that is not given back when its frame is left
ReleasedMutexKeepsWriter(t, f) ==
    [writer  |-> mutex.writer,
     readers |-> IF f.l_shared THEN mutex.readers \ {t} ELSE mutex.readers]

\* destructors of the lock objects of frame f of thread t
ReleasedMutex(t, f) ==
    [writer  |-> IF f.l_unique THEN NoThread ELSE mutex.writer,
     readers |-> IF f.l_shared THEN mutex.readers \ {t} ELSE mutex.readers]

ReleasedUseMutex(t, f) ==
    IF ~f.l_use THEN use_mutex
    ELSE IF use_mutex.count = 1 THEN [owner |-> NoThread, count |-> 0]
    ELSE [use_mutex EXCEPT !.count = use_mutex.count - 1]

\* what the host sees when its call fn(unit) ends
NoResult == [status |-> "none", fn |-> "none", unit |-> "none", val |-> Void, exc |-> NoExc]

Returned(f, v) == [status |-> "ok", fn |-> f.fn, unit |-> f.unit, val |-> v, exc |-> NoExc]

Failed(f, e) == [status |-> "error", fn |-> f.fn, unit |-> f.unit, val |-> Void, exc |-> e]

(* ------------------------------------------------------------------- Init *)

\* the engine as its constructor is entered on the Builder thread: the
\* members are default-constructed and build_eval_system is about to run
Init ==
    /\ loaded_files = {}
    /\ mutex = [writer |-> NoThread, readers |-> {}]
    /\ use_mutex = [owner |-> NoThread, count |-> 0]
    /\ stack = [t \in Threads |->
                  IF t = Builder THEN <<NewFrame("ctor", PreludeName, "reserved")>>
                  ELSE <<>>]
    /\ exc = [t \in Threads |-> NoExc]
    /\ result = [t \in Threads |-> NoResult]
    /\ calls = 0
    /\ evals = [u \in Names |-> 0]
    /\ noparse = {}
    /\ engine = [reserved |-> <<>>, added |-> <<>>, built |-> FALSE]
    /\ parsed = {}

(* ------------------------------------------------------- the constructor *)

\* build_eval_system: the sixteen engine.add_reserved_word calls
CtorReservedWords(t) ==
    /\ At(t, "ctor", "reserved")
    /\ engine' = [engine EXCEPT !.reserved = ReservedWords]
    /\ stack' = [stack EXCEPT ![t] = SetTop(@, [Top(t) EXCEPT !.pc = "add"])]
    /\ UNCHANGED <<loaded_files, mutex, use_mutex, exc, result, calls, evals, noparse, parsed>>

\* build_eval_system: the engine.add calls, then do_eval(chaiscript_prelude,
\* "standard prelude")
CtorAdd(t) ==
    /\ At(t, "ctor", "add")
    /\ engine' = [engine EXCEPT !.added = AddedBeforePrelude]
    /\ stack' = [stack EXCEPT ![t] =
           Push(SetTop(@, [Top(t) EXCEPT !.pc = "prelude"]),
                NewFrame("do_eval", PreludeName, "lock"))]
    /\ UNCHANGED <<loaded_files, mutex, use_mutex, exc, result, calls, evals, noparse, parsed>>

\* build_eval_system and the constructor return
CtorReturn(t) ==
    /\ At(t, "ctor", "ret")
    /\ engine' = [engine EXCEPT !.built = TRUE]
    /\ stack' = [stack EXCEPT ![t] = Pop(@)]
    /\ UNCHANGED <<loaded_files, mutex, use_mutex, exc, result, calls, evals, noparse, parsed>>

(* ------------------------------------------------------- calls by the host *)

\* chai.use is private; the host reaches it through the registered "use"
\* function, a script through the same function
HostUse(t, u) ==
    /\ Ready
    /\ Idle(t)
    /\ calls < MaxCalls
    /\ stack' = [stack EXCEPT ![t] = <<NewFrame("use", u, "lock_use")>>]
    /\ calls' = calls + 1
    /\ result' = [result EXCEPT ![t] = NoResult]
    /\ UNCHANGED <<loaded_files, mutex, use_mutex, exc, evals, noparse, engine, parsed>>

HostEvalFile(t, u) ==
    /\ Ready
    /\ Idle(t)
    /\ calls < MaxCalls
    /\ stack' = [stack EXCEPT ![t] = <<NewFrame("eval_file", u, "load")>>]
    /\ calls' = calls + 1
    /\ result' = [result EXCEPT ![t] = NoResult]
    /\ UNCHANGED <<loaded_files, mutex, use_mutex, exc, evals, noparse, engine, parsed>>

\* operator() and eval(input): do_eval(input) with the default filename
HostEval(t) ==
    /\ Ready
    /\ Idle(t)
    /\ calls < MaxCalls
    /\ stack' = [stack EXCEPT ![t] = <<NewFrame("do_eval", EvalName, "lock")>>]
    /\ calls' = calls + 1
    /\ result' = [result EXCEPT ![t] = NoResult]
    /\ UNCHANGED <<loaded_files, mutex, use_mutex, exc, evals, noparse, engine, parsed>>

(* ------------------------------------------- calls by the script under eval *)

\* the tree being evaluated calls use(u)
ScriptUse(t, u) ==
    /\ At(t, "do_eval", "eval")
    /\ Registered("use")
    /\ calls < MaxCalls
    /\ stack' = [stack EXCEPT ![t] = Push(@, NewFrame("use", u, "lock_use"))]
    /\ calls' = calls + 1
    /\ UNCHANGED <<loaded_files, mutex, use_mutex, exc, result, evals, noparse, engine, parsed>>

\* the tree being evaluated calls eval(text): internal_eval
internal_eval(t) ==
    /\ At(t, "do_eval", "eval")
    /\ Registered("eval")
    /\ calls < MaxCalls
    /\ stack' = [stack EXCEPT ![t] = Push(@, NewFrame("do_eval", EvalName, "lock"))]
    /\ calls' = calls + 1
    /\ UNCHANGED <<loaded_files, mutex, use_mutex, exc, result, evals, noparse, engine, parsed>>

(* -------------------------------------------------------------------- use *)

\* use_mutex as a plain, non-recursive mutex
UseLockUseNotRecursive(t) ==
    /\ At(t, "use", "lock_use")
    /\ use_mutex.owner = NoThread
    /\ use_mutex' = [owner |-> t, count |-> 1]
    /\ stack' = [stack EXCEPT ![t] =
                    SetTop(@, [Top(t) EXCEPT !.pc = "lock_shared", !.l_use = TRUE])]
    /\ UNCHANGED <<loaded_files, mutex, exc, result, calls, evals, noparse, engine, parsed>>

\* use without its lock_guard
UseLockUseNoLock(t) ==
    /\ At(t, "use", "lock_use")
    /\ stack' = [stack EXCEPT ![t] = SetTop(@, [Top(t) EXCEPT !.pc = "lock_shared"])]
    /\ UNCHANGED <<loaded_files, mutex, use_mutex, exc, result, calls, evals, noparse, engine, parsed>>

\* boost::lock_guard<boost::recursive_mutex> l(use_mutex)
UseLockUse(t) ==
    /\ At(t, "use", "lock_use")
    /\ use_mutex.owner \in {NoThread, t}
    /\ use_mutex' = [owner |-> t, count |-> use_mutex.count + 1]
    /\ stack' = [stack EXCEPT ![t] =
                    SetTop(@, [Top(t) EXCEPT !.pc = "lock_shared", !.l_use = TRUE])]
    /\ UNCHANGED <<loaded_files, mutex, exc, result, calls, evals, noparse, engine, parsed>>

\* boost::shared_lock<boost::shared_mutex> l2(mutex)
UseLockShared(t) ==
    /\ At(t, "use", "lock_shared")
    /\ mutex.writer = NoThread
    /\ mutex' = [mutex EXCEPT !.readers = @ \cup {t}]
    /\ stack' = [stack EXCEPT ![t] =
                    SetTop(@, [Top(t) EXCEPT !.pc = "check", !.l_shared = TRUE])]
    /\ UNCHANGED <<loaded_files, use_mutex, exc, result, calls, evals, noparse, engine, parsed>>

\* use loading whatever the membership test says
UseCheckAlwaysLoads(t) ==
    /\ At(t, "use", "check")
    /\ LET f == Top(t) IN
        /\ mutex' = [mutex EXCEPT !.readers = @ \ {t}]
        /\ stack' = [stack EXCEPT ![t] =
               Push(SetTop(@, [f EXCEPT !.pc = "call", !.note = "absent",
                                        !.l_shared = FALSE]),
                    NewFrame("eval_file", f.unit, "load"))]
    /\ UNCHANGED <<loaded_files, use_mutex, exc, result, calls, evals, noparse, engine, parsed>>

\* use giving up use_mutex together with l2 before it loads
UseCheckUnlocksUseMutex(t) ==
    /\ At(t, "use", "check")
    /\ LET f == Top(t) IN
       IF f.unit \notin loaded_files
       THEN /\ mutex' = [mutex EXCEPT !.readers = @ \ {t}]
            /\ use_mutex' = ReleasedUseMutex(t, f)
            /\ stack' = [stack EXCEPT ![t] =
                   Push(SetTop(@, [f EXCEPT !.pc = "call", !.note = "absent",
                                            !.l_shared = FALSE, !.l_use = FALSE]),
                        NewFrame("eval_file", f.unit, "load"))]
       ELSE /\ mutex' = mutex
            /\ use_mutex' = use_mutex
            /\ stack' = [stack EXCEPT ![t] =
                   SetTop(@, [f EXCEPT !.pc = "ret", !.note = "present"])]
    /\ UNCHANGED <<loaded_files, exc, result, calls, evals, noparse, engine, parsed>>

\* use without l2.unlock()
UseCheckKeepsShared(t) ==
    /\ At(t, "use", "check")
    /\ LET f == Top(t) IN
       IF f.unit \notin loaded_files
       THEN stack' = [stack EXCEPT ![t] =
                   Push(SetTop(@, [f EXCEPT !.pc = "call", !.note = "absent"]),
                        NewFrame("eval_file", f.unit, "load"))]
       ELSE stack' = [stack EXCEPT ![t] =
                   SetTop(@, [f EXCEPT !.pc = "ret", !.note = "present"])]
    /\ UNCHANGED <<loaded_files, mutex, use_mutex, exc, result, calls, evals, noparse,
                   engine, parsed>>

\* use interning the name itself before it loads
UseCheckInterns(t) ==
    /\ At(t, "use", "check")
    /\ LET f == Top(t) IN
       IF f.unit \notin loaded_files
       THEN /\ mutex' = [mutex EXCEPT !.readers = @ \ {t}]
            /\ loaded_files' = loaded_files \cup {f.unit}
            /\ stack' = [stack EXCEPT ![t] =
                   Push(SetTop(@, [f EXCEPT !.pc = "call", !.note = "absent",
                                            !.l_shared = FALSE]),
                        NewFrame("eval_file", f.unit, "load"))]
       ELSE /\ mutex' = mutex
            /\ loaded_files' = loaded_files
            /\ stack' = [stack EXCEPT ![t] =
                   SetTop(@, [f EXCEPT !.pc = "ret", !.note = "present"])]
    /\ UNCHANGED <<use_mutex, exc, result, calls, evals, noparse, engine, parsed>>

\* if (loaded_files.count(filename) == 0) { l2.unlock(); eval_file(filename); }
\* else { engine.sync_cache(); }
UseCheck(t) ==
    /\ At(t, "use", "check")
    /\ LET f == Top(t) IN
       IF f.unit \notin loaded_files
       THEN /\ mutex' = [mutex EXCEPT !.readers = @ \ {t}]
            /\ stack' = [stack EXCEPT ![t] =
                   Push(SetTop(@, [f EXCEPT !.pc = "call", !.note = "absent",
                                            !.l_shared = FALSE]),
                        NewFrame("eval_file", f.unit, "load"))]
       ELSE /\ mutex' = mutex
            /\ stack' = [stack EXCEPT ![t] =
                   SetTop(@, [f EXCEPT !.pc = "ret", !.note = "present"])]
    /\ UNCHANGED <<loaded_files, use_mutex, exc, result, calls, evals, noparse, engine, parsed>>

\* the closing brace of use: l2 and l are destroyed, the caller goes on
UseReturn(t) ==
    /\ At(t, "use", "ret")
    /\ LET f == Top(t) IN
        /\ mutex' = ReleasedMutex(t, f)
        /\ use_mutex' = ReleasedUseMutex(t, f)
        /\ stack' = [stack EXCEPT ![t] = Resume(Pop(@), Void)]
        /\ result' = IF Depth(t) = 1 THEN [result EXCEPT ![t] = Returned(f, Void)]
                      ELSE result
    /\ UNCHANGED <<loaded_files, exc, calls, evals, noparse, engine, parsed>>

(* -------------------------------------------------- eval_file and load_file *)

\* do_eval(load_file(filename), filename): load_file either throws
\* "Can not open: " + filename or returns the text, which do_eval is called on
eval_file(t) ==
    /\ At(t, "eval_file", "load")
    /\ LET f == Top(t) IN
       \/ /\ stack' = [stack EXCEPT ![t] =
                  Push(SetTop(@, [f EXCEPT !.pc = "call", !.note = "opened"]),
                       NewFrame("do_eval", f.unit, "lock"))]
          /\ exc' = exc
       \/ /\ stack' = [stack EXCEPT ![t] = SetTop(@, [f EXCEPT !.note = "not_open"])]
          /\ exc' = [exc EXCEPT ![t] = OpenError(f.unit)]
    /\ UNCHANGED <<loaded_files, mutex, use_mutex, result, calls, evals, noparse, engine, parsed>>

\* eval_file returns what do_eval returned
EvalFileReturn(t) ==
    /\ At(t, "eval_file", "ret")
    /\ LET f == Top(t) IN
        /\ stack' = [stack EXCEPT ![t] = Resume(Pop(@), f.value)]
        /\ result' = IF Depth(t) = 1 THEN [result EXCEPT ![t] = Returned(f, f.value)]
                      ELSE result
    /\ UNCHANGED <<loaded_files, mutex, use_mutex, exc, calls, evals, noparse, engine, parsed>>

(* ---------------------------------------------------------------- do_eval *)

\* a unique_lock that does not wait for the readers to leave
DoEvalLockIgnoresReaders(t) ==
    /\ At(t, "do_eval", "lock")
    /\ mutex.writer = NoThread
    /\ mutex' = [mutex EXCEPT !.writer = t]
    /\ stack' = [stack EXCEPT ![t] =
                    SetTop(@, [Top(t) EXCEPT !.pc = "insert", !.l_unique = TRUE])]
    /\ UNCHANGED <<loaded_files, use_mutex, exc, result, calls, evals, noparse, engine, parsed>>

\* engine.sync_cache(); Boxed_Value value;
\* boost::unique_lock<boost::shared_mutex> l(mutex)
DoEvalLock(t) ==
    /\ At(t, "do_eval", "lock")
    /\ mutex.writer = NoThread
    /\ mutex.readers = {}
    /\ mutex' = [mutex EXCEPT !.writer = t]
    /\ stack' = [stack EXCEPT ![t] =
                    SetTop(@, [Top(t) EXCEPT !.pc = "insert", !.l_unique = TRUE])]
    /\ UNCHANGED <<loaded_files, use_mutex, exc, result, calls, evals, noparse, engine, parsed>>

\* loaded_files keeping the last name only
DoEvalInsertReplaces(t) ==
    /\ At(t, "do_eval", "insert")
    /\ loaded_files' = {Top(t).unit}
    /\ stack' = [stack EXCEPT ![t] = SetTop(@, [Top(t) EXCEPT !.pc = "parse"])]
    /\ UNCHANGED <<mutex, use_mutex, exc, result, calls, evals, noparse, engine, parsed>>

\* loaded_files.insert(filename)
DoEvalInsert(t) ==
    /\ At(t, "do_eval", "insert")
    /\ loaded_files' = loaded_files \cup {Top(t).unit}
    /\ stack' = [stack EXCEPT ![t] = SetTop(@, [Top(t) EXCEPT !.pc = "parse"])]
    /\ UNCHANGED <<mutex, use_mutex, exc, result, calls, evals, noparse, engine, parsed>>

\* a parse that succeeds without l.unlock()
ParseTrueKeepsLock(t) ==
    /\ At(t, "do_eval", "parse")
    /\ LET f == Top(t) IN
        /\ stack' = [stack EXCEPT ![t] =
               SetTop(@, [f EXCEPT !.pc = "eval", !.note = "true"])]
        /\ evals' = IF UnderUse(t) THEN [evals EXCEPT ![f.unit] = @ + 1] ELSE evals
        /\ parsed' = parsed \cup {f.unit}
    /\ UNCHANGED <<loaded_files, mutex, use_mutex, exc, result, calls, noparse, engine>>

\* parser.parse(input, loaded_files.find(filename)->c_str()) returns true:
\* l.unlock() and eval_token starts on parser.ast()
ParseTrue(t) ==
    /\ At(t, "do_eval", "parse")
    /\ LET f == Top(t) IN
        /\ mutex' = [mutex EXCEPT !.writer = NoThread]
        /\ stack' = [stack EXCEPT ![t] =
               SetTop(@, [f EXCEPT !.pc = "eval", !.note = "true", !.l_unique = FALSE])]
        /\ evals' = IF UnderUse(t) THEN [evals EXCEPT ![f.unit] = @ + 1] ELSE evals
        /\ parsed' = parsed \cup {f.unit}
    /\ UNCHANGED <<loaded_files, use_mutex, exc, result, calls, noparse, engine>>

\* parser.parse returns false: the if is skipped, l stays locked
ParseFalse(t) ==
    /\ At(t, "do_eval", "parse")
    /\ LET f == Top(t) IN
        /\ stack' = [stack EXCEPT ![t] =
               SetTop(@, [f EXCEPT !.pc = "sync", !.note = "false"])]
        /\ noparse' = noparse \cup ({f.unit} \cap Names)
        /\ parsed' = parsed \cup {f.unit}
    /\ UNCHANGED <<loaded_files, mutex, use_mutex, exc, result, calls, evals, engine>>

\* parser.parse throws
ParseThrow(t) ==
    /\ At(t, "do_eval", "parse")
    /\ LET f == Top(t) IN
        /\ stack' = [stack EXCEPT ![t] = SetTop(@, [f EXCEPT !.note = "throw"])]
        /\ exc' = [exc EXCEPT ![t] = ParseError]
        /\ noparse' = noparse \cup ({f.unit} \cap Names)
        /\ parsed' = parsed \cup {f.unit}
    /\ UNCHANGED <<loaded_files, mutex, use_mutex, result, calls, evals, engine>>

\* value = eval_token<Eval_Engine>(engine, parser.ast()) comes back with a value
EvalTokenValue(t, v) ==
    /\ At(t, "do_eval", "eval")
    /\ stack' = [stack EXCEPT ![t] =
           SetTop(@, [Top(t) EXCEPT !.pc = "sync", !.value = v,
                                    !.out = "value", !.carried = v])]
    /\ UNCHANGED <<loaded_files, mutex, use_mutex, exc, result, calls, evals, noparse, engine, parsed>>

\* eval_token throws: a Return_Value, the signal of a stray break, an error
EvalTokenThrow(t, e) ==
    /\ At(t, "do_eval", "eval")
    /\ stack' = [stack EXCEPT ![t] =
           SetTop(@, [Top(t) EXCEPT !.out = e.kind, !.carried = e.val])]
    /\ exc' = [exc EXCEPT ![t] = e]
    /\ UNCHANGED <<loaded_files, mutex, use_mutex, result, calls, evals, noparse, engine, parsed>>

\* a handler that takes the signal of a break as well
CatchesAnySignal(f, e) ==
    /\ f.fn = "do_eval"
    /\ f.pc \in {"parse", "eval"}
    /\ e.kind \in {"Return_Value", "Break_Loop"}

\* whether the try block of do_eval has a handler for e: catch (const Return_Value &rv)
Catches(f, e) ==
    /\ f.fn = "do_eval"
    /\ f.pc \in {"parse", "eval"}
    /\ e.kind = "Return_Value"

\* a handler that forgets rv.retval
CatchReturnValueDropsValue(t) ==
    /\ stack[t] # <<>>
    /\ exc[t] # NoExc
    /\ Catches(Top(t), exc[t])
    /\ stack' = [stack EXCEPT ![t] = SetTop(@, [Top(t) EXCEPT !.pc = "sync"])]
    /\ exc' = [exc EXCEPT ![t] = NoExc]
    /\ UNCHANGED <<loaded_files, mutex, use_mutex, result, calls, evals, noparse, engine, parsed>>

\* catch (const Return_Value &rv) { value = rv.retval; }
CatchReturnValue(t) ==
    /\ stack[t] # <<>>
    /\ exc[t] # NoExc
    /\ Catches(Top(t), exc[t])
    /\ stack' = [stack EXCEPT ![t] =
           SetTop(@, [Top(t) EXCEPT !.pc = "sync", !.value = exc[t].val])]
    /\ exc' = [exc EXCEPT ![t] = NoExc]
    /\ UNCHANGED <<loaded_files, mutex, use_mutex, result, calls, evals, noparse, engine, parsed>>

\* engine.sync_cache(); return value;  (l is destroyed)
DoEvalReturn(t) ==
    /\ At(t, "do_eval", "sync")
    /\ LET f == Top(t) IN
        /\ mutex' = ReleasedMutex(t, f)
        /\ stack' = [stack EXCEPT ![t] = Resume(Pop(@), f.value)]
        /\ result' = IF Depth(t) = 1 THEN [result EXCEPT ![t] = Returned(f, f.value)]
                      ELSE result
    /\ UNCHANGED <<loaded_files, use_mutex, exc, calls, evals, noparse, engine, parsed>>

(* ------------------------------------------------------------- unwinding *)

\* a do_eval that takes its name back out of loaded_files when it fails
UnwindRollsBack(t) ==
    /\ stack[t] # <<>>
    /\ exc[t] # NoExc
    /\ ~Catches(Top(t), exc[t])
    /\ LET f == Top(t) IN
        /\ mutex' = ReleasedMutex(t, f)
        /\ use_mutex' = ReleasedUseMutex(t, f)
        /\ stack' = [stack EXCEPT ![t] = Pop(@)]
        /\ loaded_files' = IF f.fn = "do_eval" THEN loaded_files \ {f.unit}
                            ELSE loaded_files
        /\ IF Depth(t) = 1
           THEN /\ result' = [result EXCEPT ![t] = Failed(f, exc[t])]
                /\ exc' = [exc EXCEPT ![t] = NoExc]
           ELSE /\ result' = result
                /\ exc' = exc
    /\ UNCHANGED <<calls, evals, noparse, engine, parsed>>

\* an exception no handler of the top frame catches leaves that frame: its
\* lock objects are destroyed; out of the outermost frame it reaches the host
Unwind(t) ==
    /\ stack[t] # <<>>
    /\ exc[t] # NoExc
    /\ ~Catches(Top(t), exc[t])
    /\ LET f == Top(t) IN
        /\ mutex' = ReleasedMutex(t, f)
        /\ use_mutex' = ReleasedUseMutex(t, f)
        /\ stack' = [stack EXCEPT ![t] = Pop(@)]
        /\ IF Depth(t) = 1
           THEN /\ result' = [result EXCEPT ![t] = Failed(f, exc[t])]
                /\ exc' = [exc EXCEPT ![t] = NoExc]
           ELSE /\ result' = result
                /\ exc' = exc
    /\ UNCHANGED <<loaded_files, calls, evals, noparse, engine, parsed>>

(* ------------------------------------------------------------------ Next *)

Signals == {ReturnSignal(v) : v \in Values} \cup {BreakSignal, EvalError}

Step(t) ==
    \/ CtorReservedWords(t)
    \/ CtorAdd(t)
    \/ CtorReturn(t)
    \/ UseLockUse(t)
    \/ UseLockShared(t)
    \/ UseCheck(t)
    \/ UseReturn(t)
    \/ eval_file(t)
    \/ EvalFileReturn(t)
    \/ DoEvalLock(t)
    \/ DoEvalInsert(t)
    \/ ParseTrue(t)
    \/ ParseFalse(t)
    \/ ParseThrow(t)
    \/ \E v \in Values : EvalTokenValue(t, v)
    \/ \E e \in Signals : EvalTokenThrow(t, e)
    \/ CatchReturnValue(t)
    \/ DoEvalReturn(t)
    \/ Unwind(t)

Next ==
    \/ \E t \in Threads, u \in Names : HostUse(t, u)
    \/ \E t \in Threads, u \in Names : HostEvalFile(t, u)
    \/ \E t \in Threads : HostEval(t)
    \/ \E t \in Threads, u \in Names : ScriptUse(t, u)
    \/ \E t \in Threads : internal_eval(t)
    \/ \E t \in Threads : Step(t)

Spec == Init /\ [][Next]_vars

\* a run in which hosts and scripts call nothing but use
NextUse ==
    \/ \E t \in Threads, u \in Names : HostUse(t, u)
    \/ \E t \in Threads, u \in Names : ScriptUse(t, u)
    \/ \E t \in Threads : Step(t)

SpecUse == Init /\ [][NextUse]_vars

\* every thread that can take a step of a call it is in takes one in the end:
\* each call runs synchronously on its thread and eval_token is taken to end
FairSpec == Spec /\ \A t \in Threads : WF_vars(Step(t))

(* ------------------------------------------------------------ properties *)

FrameIdx(t) == 1 .. Len(stack[t])

\* a do_eval of name u has been entered by t and has not left yet
Evaluating(t, u) ==
    \E i \in FrameIdx(t) : stack[t][i].fn = "do_eval" /\ stack[t][i].unit = u

\* the same, for a do_eval that a use of t led to
EvaluatingThroughUse(t, u) ==
    \E i \in FrameIdx(t) :
        /\ stack[t][i].fn = "do_eval" /\ stack[t][i].unit = u
        /\ \E j \in 1 .. (i - 1) : stack[t][j].fn = "use"

\* a use of t is about to return / is being left by an exception
UseReturning(t) == At(t, "use", "ret")

UseFailing(t) == stack[t] # <<>> /\ exc[t] # NoExc /\ Top(t).fn = "use"

\* C1 as stated: once a call use(X) ends, X has been evaluated exactly once.
C1_ExactlyOnceStated ==
    \A t \in Threads :
        (UseReturning(t) \/ UseFailing(t)) => evals[Top(t).unit] = 1

\* C1, amended: with use as the only entry, the tree of X is evaluated at
\* most once in total, and exactly once by the time a use(X) returns
\* normally unless the parser gave no tree for X.
C1_AtMostOnce ==
    /\ \A u \in Names : evals[u] <= 1
    /\ \A t \in Threads :
          (UseReturning(t) /\ Top(t).unit \notin noparse) => evals[Top(t).unit] = 1

C1_Witness ==
    /\ calls >= 2
    /\ \E t \in Threads :
          /\ UseReturning(t) /\ Top(t).note = "present"
          /\ Top(t).unit \notin noparse /\ evals[Top(t).unit] = 1
          /\ \A t2 \in Threads : ~Evaluating(t2, Top(t).unit)

\* C2 as stated: whenever a use(X) returns, no evaluation of X is under way.
C2_ReturnsAfterEvalStated ==
    \A t \in Threads :
        UseReturning(t) => \A t2 \in Threads : ~Evaluating(t2, Top(t).unit)

\* C2, amended: whenever a use(X) returns, no evaluation of X that another
\* thread started through use is under way (an evaluation of X by the
\* calling thread itself, or one started by eval_file / eval on another
\* thread, may be); and a use that did the load itself returns with X
\* interned and its parse and evaluation of X over.
C2_ReturnsAfterUseEval ==
    /\ \A t \in Threads :
          UseReturning(t) =>
              \A t2 \in Threads \ {t} : ~EvaluatingThroughUse(t2, Top(t).unit)
    /\ \A t \in Threads :
          (UseReturning(t) /\ Top(t).note = "absent") =>
              /\ Top(t).unit \in loaded_files
              /\ evals[Top(t).unit] = 1 \/ Top(t).unit \in noparse

C2_Witness ==
    \E t \in Threads :
        /\ UseReturning(t) /\ Top(t).note = "present"
        /\ evals[Top(t).unit] = 1
        /\ \E t2 \in Threads \ {t} : result[t2].status = "ok"

\* use(u) called by the script of the do_eval of u that is still running
SelfUse(t) ==
    \E i \in FrameIdx(t) : \E j \in FrameIdx(t) :
        /\ i < j
        /\ stack[t][i].fn = "do_eval" /\ stack[t][j].fn = "use"
        /\ stack[t][i].unit = stack[t][j].unit

SelfUseLoads(t) ==
    \E i \in FrameIdx(t) : \E j \in FrameIdx(t) :
        /\ i < j
        /\ stack[t][i].fn = "do_eval" /\ stack[t][j].fn = "use"
        /\ stack[t][i].unit = stack[t][j].unit
        /\ stack[t][j].note = "absent"

\* C3: a use of the file being loaded, called from that file's script, never
\* starts a second load, and once a thread is in such a use the run comes to
\* a state where every thread is out of all its calls (the calls of a run
\* being finitely many).
C3_SelfUseNoDeadlock ==
    /\ [](\A t \in Threads : ~SelfUseLoads(t))
    /\ (\E t \in Threads : SelfUse(t)) ~> (\A t \in Threads : stack[t] = <<>>)

C3_Witness ==
    \E t \in Threads :
        /\ Depth(t) = 4
        /\ stack[t][1].fn = "use" /\ stack[t][3].fn = "do_eval"
        /\ stack[t][4].fn = "use" /\ stack[t][4].unit = stack[t][1].unit
        /\ stack[t][4].pc = "ret"

\* t is in the load of a first use: file read, parse or evaluation
UseLoading(t) ==
    \E i \in FrameIdx(t) : stack[t][i].fn = "use" /\ stack[t][i].pc = "call"

\* t has passed the lock_guard of some use it is in
InsideUse(t) ==
    \E i \in FrameIdx(t) : stack[t][i].fn = "use" /\ stack[t][i].pc # "lock_use"

\* C4 as stated: during the load of a first use the thread holds no
\* exclusive lock of the engine.
C4_NoLockWhileLoadingStated ==
    \A t \in Threads :
        UseLoading(t) => (use_mutex.owner # t /\ mutex.writer # t)

\* C4, amended: use holds use_mutex from its first statement to its return,
\* the load included, so no two threads are past the lock of use at once;
\* mutex is not held in any mode while the file is read, is held in write
\* mode for the insertion and the parse, and is not held while the tree is
\* evaluated.
C4_UseMutexHeldWhileLoading ==
    /\ \A t \in Threads : InsideUse(t) => use_mutex.owner = t
    /\ \A t \in Threads :
          (stack[t] # <<>> /\ Top(t).fn = "eval_file" /\ Top(t).pc = "load")
              => (mutex.writer # t /\ t \notin mutex.readers)
    /\ \A t \in Threads :
          (stack[t] # <<>> /\ Top(t).fn = "do_eval")
              => (mutex.writer = t <=> Top(t).pc \in {"insert", "parse", "sync"}
                                        /\ Top(t).note # "true" /\ Top(t).out = "none")

C4_Witness ==
    \E t \in Threads : \E t2 \in Threads \ {t} :
        /\ UseLoading(t) /\ Top(t).fn = "do_eval" /\ Top(t).pc = "eval"
        /\ At(t2, "use", "lock_use") /\ Top(t2).unit # Top(t).unit

\* a use that found its name in loaded_files
UseFound(t, i) == stack[t][i].fn = "use" /\ stack[t][i].note = "present"

\* C5: a use(X) that finds X in loaded_files calls nothing (it is the
\* innermost call of its thread until it returns), raises nothing, and its
\* steps leave loaded_files and the evaluation records as they are.
C5_UseOfLoadedIsNoop ==
    /\ [](\A t \in Threads : \A i \in FrameIdx(t) :
            UseFound(t, i) => (i = Depth(t) /\ exc[t] = NoExc /\ stack[t][i].pc = "ret"))
    /\ [][\A t \in Threads :
            ( /\ At(t, "use", "check") \/ At(t, "use", "ret")
              /\ Top(t).unit \in loaded_files
              /\ Top(t).note # "absent"
              /\ stack'[t] # stack[t] )
            => ( /\ loaded_files' = loaded_files
                 /\ evals' = evals /\ noparse' = noparse /\ exc' = exc
                 /\ Len(stack'[t]) <= Len(stack[t]) )]_vars

C5_Witness ==
    \E t \in Threads :
        /\ UseReturning(t) /\ Top(t).note = "present"
        /\ Top(t).unit = EvalName
        /\ evals[EvalName] = 0 /\ EvalName \notin noparse

\* C6: a Return_Value thrown by eval_token is caught by do_eval, whose
\* result is then the value the signal carries; without a signal the result
\* is the value eval_token produced; no Return_Value reaches a caller.
C6_TopLevelReturn ==
    /\ \A t \in Threads : \A i \in FrameIdx(t) :
          (stack[t][i].fn = "do_eval" /\ stack[t][i].out \in {"value", "Return_Value"}
              /\ (i < Depth(t) \/ exc[t] = NoExc))
          => (stack[t][i].pc = "sync" /\ stack[t][i].value = stack[t][i].carried)
    /\ \A t \in Threads :
          exc[t].kind = "Return_Value" => (Top(t).fn = "do_eval" /\ Top(t).pc = "eval")
    /\ \A t \in Threads : result[t].exc.kind # "Return_Value"

C6_Witness ==
    \E t \in Threads :
        /\ At(t, "do_eval", "sync") /\ Depth(t) = 1
        /\ Top(t).out = "Return_Value" /\ Top(t).value \in Values

\* C7: the name of a do_eval is in loaded_files from before the parse until
\* the do_eval has left, and no step takes a name out of loaded_files.
C7_LoadedFilesGrows ==
    /\ [](\A t \in Threads : \A i \in FrameIdx(t) :
            (stack[t][i].fn = "do_eval" /\ stack[t][i].pc \in {"parse", "eval", "sync"})
                => stack[t][i].unit \in loaded_files)
    /\ [][loaded_files \subseteq loaded_files']_vars

C7_Witness ==
    /\ Cardinality(loaded_files) = 3
    /\ \E t \in Threads : At(t, "do_eval", "parse")

\* C8: loaded_files is inserted into only by a thread holding mutex in write
\* mode, is tested by use only under mutex in read mode, and no thread
\* inserts while another thread inserts, tests or reads it.
AtInsert(t) == At(t, "do_eval", "insert") \/ At(t, "do_eval", "parse")

AtCheck(t) == At(t, "use", "check")

C8_LoadedFilesLocked ==
    /\ \A t \in Threads : AtInsert(t) => mutex.writer = t
    /\ \A t \in Threads : AtCheck(t) => t \in mutex.readers
    /\ mutex.writer # NoThread => mutex.readers = {}
    /\ \A t \in Threads : \A t2 \in Threads \ {t} :
          ~(AtInsert(t) /\ (AtInsert(t2) \/ AtCheck(t2)))

C8_Witness ==
    \E t \in Threads : \E t2 \in Threads \ {t} :
        /\ At(t, "do_eval", "insert")
        /\ At(t2, "use", "lock_shared") \/ At(t2, "do_eval", "lock")

\* C9 as stated: when parser.parse does not succeed, do_eval does not go on
\* to return a value, and eval_token is not run.
C9_ParseFailureSurfacedStated ==
    \A t \in Threads : \A i \in FrameIdx(t) :
        (stack[t][i].fn = "do_eval" /\ stack[t][i].note \in {"false", "throw"})
            => (stack[t][i].pc # "sync" /\ exc[t] # NoExc /\ stack[t][i].out = "none")

\* elements of a message
Includes(msg, part) == \E k \in 1 .. Len(msg) : msg[k] = part

\* C10: when the file of eval_file(path) does not open, a runtime_error whose
\* message includes path is thrown and eval_file calls no do_eval; the error
\* goes through use unchanged.
C10_OpenFailure ==
    /\ \A t \in Threads : \A i \in FrameIdx(t) :
          (stack[t][i].fn = "eval_file" /\ stack[t][i].note = "not_open")
          => ( /\ i = Depth(t)
               /\ exc[t].kind = "runtime_error"
               /\ Includes(exc[t].msg, stack[t][i].unit) )
    /\ \A t \in Threads :
          exc[t].kind = "runtime_error" => \E u \in Names : Includes(exc[t].msg, u)
    /\ \A t \in Threads :
          result[t].exc.kind = "runtime_error"
          => ( /\ result[t].status = "error"
               /\ \E u \in Names : Includes(result[t].exc.msg, u) )

C10_Witness ==
    \E t \in Threads :
        /\ result[t].status = "error" /\ result[t].fn = "use"
        /\ result[t].exc.kind = "runtime_error"
        /\ Includes(result[t].exc.msg, result[t].unit)
        /\ evals[result[t].unit] = 0 /\ result[t].unit \notin loaded_files

\* C11: the signal of a break that leaves eval_token is not caught by
\* do_eval: the do_eval does not go on to return a value, and the signal
\* ends as the error of the host's call.
C11_BreakReported ==
    /\ [](\A t \in Threads : \A i \in FrameIdx(t) :
            (stack[t][i].fn = "do_eval" /\ stack[t][i].out = "Break_Loop")
            => (i = Depth(t) /\ stack[t][i].pc = "eval" /\ exc[t] = BreakSignal))
    /\ [](\A t \in Threads :
            result[t].exc.kind = "Break_Loop"
            => (result[t].status = "error" /\ result[t].val = Void))
    /\ [][\A t \in Threads :
            (exc[t].kind = "Break_Loop" /\ exc'[t] # exc[t])
            => (stack'[t] = <<>> /\ result'[t].status = "error"
                /\ result'[t].exc = BreakSignal)]_vars

C11_Witness ==
    \E t \in Threads :
        /\ Idle(t)
        /\ result[t].status = "error" /\ result[t].fn = "do_eval"
        /\ result[t].exc.kind = "Break_Loop"

\* the reserved words and the script built-ins, as the specification lists them
ListedReservedWords ==
    {"def", "fun", "while", "for", "if", "else", "&&", "||", ",", ":=", "var",
     "return", "break", "true", "false", "_"}

ListedBuiltins ==
    {"use", "eval", "type_name", "is_type", "function_exists", "dump_system",
     "dump_object"}

\* C12: the constructor registers exactly the listed reserved words, has the
\* script built-ins registered whenever the prelude is under evaluation,
\* evaluates the prelude by a do_eval under the prelude's name, and returns
\* with that name in loaded_files and no lock held.
C12_Construction ==
    /\ \A t \in Threads : \A i \in FrameIdx(t) :
          (stack[t][i].fn = "ctor" /\ stack[t][i].pc # "reserved")
          => ( /\ Range(engine.reserved) = ListedReservedWords
               /\ Len(engine.reserved) = Cardinality(ListedReservedWords) )
    /\ \A t \in Threads :
          Evaluating(t, PreludeName) => ListedBuiltins \subseteq Range(engine.added)
    /\ \A t \in Threads : \A i \in FrameIdx(t) :
          (stack[t][i].fn = "ctor" /\ stack[t][i].pc = "prelude"
              /\ (i < Depth(t) \/ exc[t] = NoExc))
          => ( /\ i < Depth(t)
               /\ stack[t][i + 1].fn = "do_eval"
               /\ stack[t][i + 1].unit = PreludeName )
    /\ \A t \in Threads :
          At(t, "ctor", "ret")
          => ( /\ PreludeName \in loaded_files
               /\ mutex = [writer |-> NoThread, readers |-> {}]
               /\ use_mutex = [owner |-> NoThread, count |-> 0] )
    /\ engine.built
          => ( /\ PreludeName \in loaded_files
               /\ Range(engine.reserved) = ListedReservedWords
               /\ ListedBuiltins \subseteq Range(engine.added) )

C12_Witness ==
    /\ engine.built
    /\ calls = 0
    /\ \A t \in Threads : Idle(t)

\* t is in a call that the script of one of its do_eval made
Nested(t) ==
    \E i \in FrameIdx(t) :
        /\ i < Depth(t)
        /\ stack[t][i].fn = "do_eval" /\ stack[t][i].pc = "eval"
        /\ stack[t][i + 1].fn \in {"use", "do_eval"}

\* C13: a thread whose innermost call is a do_eval evaluating its tree holds
\* mutex in no mode, so a use or eval called by the script, at any depth,
\* never waits for a lock that its own thread holds.
C13_ReentrantCalls ==
    /\ \A t \in Threads :
          At(t, "do_eval", "eval") => (mutex.writer # t /\ t \notin mutex.readers)
    /\ \A t \in Threads :
          (Nested(t) /\ At(t, "do_eval", "lock"))
          => (mutex.writer # t /\ t \notin mutex.readers)
    /\ \A t \in Threads :
          (Nested(t) /\ At(t, "use", "lock_shared")) => mutex.writer # t
    /\ \A t \in Threads :
          (Nested(t) /\ At(t, "use", "lock_use") /\ use_mutex.owner # t)
          => \A i \in FrameIdx(t) : ~stack[t][i].l_use

C13_Witness ==
    \E t \in Threads :
        /\ Depth(t) = 5
        /\ At(t, "do_eval", "eval")
        /\ stack[t][1].fn = "do_eval" /\ stack[t][1].pc = "eval"
        /\ stack[t][2].fn = "use" /\ stack[t][2].note = "absent"
        /\ stack[t][4].fn = "do_eval" /\ stack[t][4].pc = "eval"

\* t holds mutex in some mode
HoldsMutex(t) == mutex.writer = t \/ t \in mutex.readers

\* C14: a thread asks for use_mutex only while it holds mutex in no mode,
\* and whenever some thread is in a call the run comes to a state where every
\* thread is out of all its calls, returned or failed (the calls of a run
\* being finitely many).
C14_NoDeadlock ==
    /\ [](\A t \in Threads : At(t, "use", "lock_use") => ~HoldsMutex(t))
    /\ (\E t \in Threads : stack[t] # <<>>) ~> (\A t \in Threads : stack[t] = <<>>)

C14_Witness ==
    \E t \in Threads : \E t2 \in Threads \ {t} :
        /\ At(t, "use", "lock_use") /\ Depth(t) >= 2
        /\ use_mutex.owner = t2
        /\ At(t2, "do_eval", "eval")

\* C15: each thread holds use_mutex as many times as it has use frames past
\* their lock_guard, holds mutex in write mode exactly while one of its
\* do_eval holds its unique_lock and in read mode exactly while one of its
\* use holds its shared_lock; a thread that is in no call holds no lock.
C15_NoLockLeak ==
    /\ \A t \in Threads :
          stack[t] = <<>> => (~HoldsMutex(t) /\ use_mutex.owner # t)
    /\ \A t \in Threads :
          /\ mutex.writer = t <=> \E i \in FrameIdx(t) : stack[t][i].l_unique
          /\ t \in mutex.readers <=> \E i \in FrameIdx(t) : stack[t][i].l_shared
          /\ Cardinality({i \in FrameIdx(t) : stack[t][i].l_use})
                = IF use_mutex.owner = t THEN use_mutex.count ELSE 0
    /\ use_mutex.owner = NoThread <=> use_mutex.count = 0

C15_Witness ==
    \E t \in Threads : \E t2 \in Threads \ {t} :
        /\ Idle(t) /\ Idle(t2)
        /\ result[t].status = "error" /\ result[t].exc.kind = "parse_error"
        /\ result[t2].status = "ok" /\ result[t2].fn = "use"
        /\ result[t2].unit \in noparse /\ evals[result[t2].unit] = 0
        /\ result[t2].unit # result[t].unit

\* C16: a do_eval that fails in its parse or its evaluation leaves its name
\* in loaded_files, so does the use or eval_file the failure goes through,
\* and a use that finds its name in loaded_files loads nothing.
C16_FailedLoadStaysInterned ==
    /\ [](\A t \in Threads : \A i \in FrameIdx(t) :
            (stack[t][i].fn = "do_eval" /\ stack[t][i].pc \in {"parse", "eval"})
            => stack[t][i].unit \in loaded_files)
    /\ [](\A t \in Threads :
            ( /\ result[t].status = "error"
              /\ result[t].fn \in {"use", "eval_file"}
              /\ result[t].exc.kind # "runtime_error" )
            => result[t].unit \in loaded_files)
    /\ [][\A t \in Threads :
            (At(t, "use", "check") /\ Top(t).unit \in loaded_files
                /\ stack'[t] # stack[t])
            => ( /\ Len(stack'[t]) = Len(stack[t])
                 /\ stack'[t][Len(stack[t])].note = "present"
                 /\ stack'[t][Len(stack[t])].pc = "ret"
                 /\ parsed' = parsed /\ evals' = evals )]_vars

C16_Witness ==
    \E t \in Threads : \E t2 \in Threads \ {t} :
        /\ Idle(t2)
        /\ result[t2].status = "error" /\ result[t2].fn \in {"use", "eval_file"}
        /\ result[t2].exc.kind \in {"parse_error", "eval_error"}
        /\ UseReturning(t) /\ Top(t).note = "present"
        /\ Top(t).unit = result[t2].unit

\* C17: a name gets into loaded_files only through a do_eval that has come
\* to its parse, so not through a call whose file does not open; the steps
\* of a failing open leave loaded_files as it is; and a use that does not
\* find its name in loaded_files goes to load the file.
C17_FailedOpenInternsNothing ==
    /\ [](\A u \in loaded_files :
            \/ u \in parsed
            \/ \E t \in Threads : \E i \in FrameIdx(t) :
                  /\ stack[t][i].fn = "do_eval" /\ stack[t][i].unit = u
                  /\ stack[t][i].pc = "parse")
    /\ [][\A t \in Threads :
            ( /\ stack[t] # <<>> /\ stack'[t] # stack[t]
              /\ \/ At(t, "eval_file", "load") /\ exc'[t] # NoExc
                 \/ exc[t].kind = "runtime_error" )
            => loaded_files' = loaded_files]_vars
    /\ [][\A t \in Threads :
            (At(t, "use", "check") /\ Top(t).unit \notin loaded_files
                /\ stack'[t] # stack[t])
            => ( /\ Len(stack'[t]) = Len(stack[t]) + 1
                 /\ stack'[t][Len(stack'[t])].fn = "eval_file"
                 /\ stack'[t][Len(stack'[t])].pc = "load" )]_vars

C17_Witness ==
    \E t \in Threads : \E t2 \in Threads \ {t} :
        /\ Idle(t2)
        /\ result[t2].status = "error" /\ result[t2].fn = "use"
        /\ result[t2].exc = OpenError(result[t2].unit)
        /\ At(t, "eval_file", "load") /\ Depth(t) = 2
        /\ stack[t][1].fn = "use" /\ stack[t][1].unit = result[t2].unit
        /\ result[t2].unit \notin loaded_files

====
